---- MODULE Spec2Model ----
(***************************************************************************)
(* Streaming recursive-descent GPX parser: the tag-verification primitive  *)
(* (parser/mod.rs), the string leaf consumer (parser/string.rs) and the    *)
(* composite consumers for copyright (parser/copyright.rs) and track       *)
(* segment (parser/tracksegment.rs), run over a Peekable event stream.     *)
(***************************************************************************)
EXTENDS Integers, Sequences, FiniteSets, TLC

VARIABLES reader, vst, str, cpr, seg, wpt, entry

vars == <<reader, vst, str, cpr, seg, wpt, entry>>

(***************************************************************************)
(* Bounds of the model.                                                    *)
(***************************************************************************)
\* longest event stream the tokenizer produces when it is unconstrained
MaxEvents == 5
\* most child elements of a generated <copyright> document
MaxChildren == 2
\* most <trkpt> elements of a generated <trkseg> document
MaxPoints == 2

(***************************************************************************)
(* Option values: None is the empty sequence, Some(v) the one-element one. *)
(***************************************************************************)
None == <<>>
Some(v) == <<v>>

(***************************************************************************)
(* XmlEvent values read from the stream (xml::reader::XmlEvent, and the    *)
(* Err(_) a tokenizer failure is reported with).  NoEvent stands for the   *)
(* Option::None the iterator returns when it is exhausted.                 *)
(***************************************************************************)
StartElement(n, attrs) == [kind |-> "StartElement", name |-> n, attributes |-> attrs]
EndElement(n) == [kind |-> "EndElement", name |-> n]
Characters(t) == [kind |-> "Characters", text |-> t]
OtherEvent == [kind |-> "Other"]
ErrorEvent(e) == [kind |-> "Error", error |-> e]
NoEvent == [kind |-> "None"]

Attr(n, v) == [name |-> n, value |-> v]

Names == {"copyright", "license", "year", "trkseg", "trkpt", "name", "extensions", "baz"}
Texts == {"2020", "-5", "x", " ", "2147483648"}
Errors == {"e1", "e2"}

AuthorAttrs == <<Attr("author", "OSM")>>
PointAttrs == <<Attr("lat", "38.8"), Attr("lon", "-77.0")>>

AttributesOf(n) ==
    CASE n = "copyright" -> {<<>>, AuthorAttrs}
      [] n = "trkpt" -> {<<>>, PointAttrs}
      [] OTHER -> {<<>>}

StartEvents == UNION {{StartElement(n, a) : a \in AttributesOf(n)} : n \in Names}

\* every event an unconstrained tokenizer may produce next
Alphabet ==
    UNION {StartEvents,
           {EndElement(n) : n \in Names},
           {Characters(t) : t \in Texts},
           {OtherEvent},
           {ErrorEvent(e) : e \in Errors}}

(***************************************************************************)
(* GpxResult and GpxError.                                                 *)
(***************************************************************************)
Ok(v) == [tag |-> "Ok", val |-> v]
Err(e) == [tag |-> "Err", val |-> e]
Continue == [tag |-> "Continue", val |-> <<>>]

InvalidChildElement(child, parent) == [kind |-> "InvalidChildElement", args |-> <<child, parent>>]
InvalidClosingTag(found, parent) == [kind |-> "InvalidClosingTag", args |-> <<found, parent>>]
MissingOpeningTag(n) == [kind |-> "MissingOpeningTag", args |-> <<n>>]
MissingClosingTag(n) == [kind |-> "MissingClosingTag", args |-> <<n>>]
NoStringContent == [kind |-> "NoStringContent", args |-> <<>>]
EventParsingError(n) == [kind |-> "EventParsingError", args |-> <<n>>]
TrackSegmentError == [kind |-> "TrackSegmentError", args |-> <<>>]
InvalidElementLacksAttribute(a, n) == [kind |-> "InvalidElementLacksAttribute", args |-> <<a, n>>]
\* the conversion `?` applies to an xml::reader::Error
XmlParseError(e) == [kind |-> "XmlParseError", args |-> <<e>>]

IsOk(r) == r.tag = "Ok"
IsErr(r) == r.tag = "Err"

(***************************************************************************)
(* The Peekable<Events<R>> of the Context.  events are the events the      *)
(* tokenizer has produced so far, pos how many of them next() has handed   *)
(* out (so a peeked event is events[pos + 1]), ended whether the tokenizer *)
(* has returned None.  rest is the remainder of a fixed input document;    *)
(* with free the tokenizer instead produces any event of Alphabet.         *)
(***************************************************************************)
Last(s) == s[Len(s)]

CanProduce(r) ==
    /\ ~r.ended
    /\ (r.events = <<>> \/ Last(r.events).kind # "Error")
    /\ IF r.free THEN Len(r.events) < MaxEvents ELSE r.rest # <<>>

Produced(r) == IF r.free THEN Alphabet ELSE {Head(r.rest)}

\* the reader once its lookahead slot is filled
Pull(r) ==
    IF r.pos < Len(r.events) \/ r.ended
    THEN {r}
    ELSE (IF CanProduce(r)
          THEN {[r EXCEPT !.events = Append(@, e),
                          !.rest = IF r.free THEN @ ELSE Tail(@)] : e \in Produced(r)}
          ELSE {})
         \cup (IF r.free \/ ~CanProduce(r) THEN {[r EXCEPT !.ended = TRUE]} ELSE {})

\* the event in the lookahead slot of a pulled reader
Front(r) == IF r.pos < Len(r.events) THEN r.events[r.pos + 1] ELSE NoEvent

\* next(): hand the lookahead event out
Advance(r) == IF r.pos < Len(r.events) THEN [r EXCEPT !.pos = @ + 1] ELSE r

Idle == [pc |-> "idle"]

(***************************************************************************)
(* str::parse::<i32>() as copyright.rs applies it to the text of <year>.   *)
(* CharsOf gives the characters of a text, which TLA+ strings do not       *)
(* expose.                                                                 *)
(***************************************************************************)
I32_MAX == 2147483647
I32_MIN == (0 - I32_MAX) - 1

CharsOf(t) ==
    CASE t = "2020" -> <<"2", "0", "2", "0">>
      [] t = "-5" -> <<"-", "5">>
      [] t = "+7" -> <<"+", "7">>
      [] t = "x" -> <<"x">>
      [] t = " " -> <<" ">>
      [] t = " 4" -> <<" ", "4">>
      [] t = "-" -> <<"-">>
      [] t = "2147483647" -> <<"2", "1", "4", "7", "4", "8", "3", "6", "4", "7">>
      [] t = "2147483648" -> <<"2", "1", "4", "7", "4", "8", "3", "6", "4", "8">>
      [] t = "-2147483648" -> <<"-", "2", "1", "4", "7", "4", "8", "3", "6", "4", "8">>
      [] t = "" -> <<>>

Digits == {"0", "1", "2", "3", "4", "5", "6", "7", "8", "9"}

DigitValue(c) ==
    CASE c = "0" -> 0 [] c = "1" -> 1 [] c = "2" -> 2 [] c = "3" -> 3 [] c = "4" -> 4
      [] c = "5" -> 5 [] c = "6" -> 6 [] c = "7" -> 7 [] c = "8" -> 8 [] c = "9" -> 9

\* i32::checked_mul(acc, 10), checked_add(m, d) and checked_sub(m, d)
CheckedMul10(acc) ==
    IF acc > I32_MAX \div 10 \/ acc < 0 - (I32_MAX \div 10) THEN None ELSE Some(acc * 10)

CheckedAdd(m, d) == IF m > I32_MAX - d THEN None ELSE Some(m + d)

CheckedSub(m, d) == IF m < I32_MIN + d THEN None ELSE Some(m - d)

\* the checked accumulation of the digits ds onto acc; None on a character
\* that is no digit and on leaving the i32 range
RECURSIVE Accumulate(_, _, _)
Accumulate(ds, acc, positive) ==
    IF ds = <<>> THEN Some(acc)
    ELSE IF Head(ds) \notin Digits THEN None
    ELSE LET m == CheckedMul10(acc) IN
         IF m = None THEN None
         ELSE LET v == IF positive THEN CheckedAdd(m[1], DigitValue(Head(ds)))
                       ELSE CheckedSub(m[1], DigitValue(Head(ds)))
              IN IF v = None THEN None ELSE Accumulate(Tail(ds), v[1], positive)

\* ParseI32 dropping the sign
ParseI32Unsigned(t) ==
    LET cs == CharsOf(t) IN
    IF cs = <<>> THEN None
    ELSE IF Head(cs) \in {"+", "-"} /\ Len(cs) = 1 THEN None
    ELSE IF Head(cs) \in {"+", "-"} THEN Accumulate(Tail(cs), 0, TRUE)
    ELSE Accumulate(cs, 0, TRUE)

\* .parse().ok() at type Option<i32>
ParseI32(t) ==
    LET cs == CharsOf(t) IN
    IF cs = <<>> THEN None
    ELSE IF Head(cs) \in {"+", "-"} /\ Len(cs) = 1 THEN None
    ELSE IF Head(cs) = "+" THEN Accumulate(Tail(cs), 0, TRUE)
    ELSE IF Head(cs) = "-" THEN Accumulate(Tail(cs), 0, FALSE)
    ELSE Accumulate(cs, 0, TRUE)

\* IsEmpty after trimming the text
IsEmptyTrimmed(t) == t \in {"", " "}

\* String::is_empty
IsEmpty(t) == t = ""

(***************************************************************************)
(* verify_starting_tag (parser/mod.rs).                                    *)
(***************************************************************************)
\* VerifyStartElement handing back no attribute of the element
VerifyStartElementDropsAttributes(local_name, ev) ==
    IF ev.name # local_name
    THEN Err(InvalidChildElement(ev.name, local_name))
    ELSE Ok(<<>>)

\* the arm for an opening tag: the name test, then the element's attributes
VerifyStartElement(local_name, ev) ==
    IF ev.name # local_name
    THEN Err(InvalidChildElement(ev.name, local_name))
    ELSE Ok(ev.attributes)

\* VerifyCharacters skipping text as it skips a comment
VerifyCharactersSkipsText(local_name, ev) == Continue

\* the arm for text, whitespace included
VerifyCharacters(local_name, ev) == Err(InvalidChildElement(ev.text, local_name))

\* VerifyExhausted reporting the end of the stream as an unexpected child
VerifyExhaustedAsChild(local_name) == Err(InvalidChildElement("", local_name))

\* the arm for the end of the stream
VerifyExhausted(local_name) == Err(MissingOpeningTag(local_name))

\* the match on the event next() returned; Continue when the loop goes on
VerifyMatch(local_name, ev) ==
    CASE ev.kind = "StartElement" -> VerifyStartElement(local_name, ev)
      [] ev.kind = "EndElement" -> Err(InvalidChildElement(ev.name, local_name))
      [] ev.kind = "Characters" -> VerifyCharacters(local_name, ev)
      [] ev.kind = "None" -> VerifyExhausted(local_name)
      [] OTHER -> Continue

CallVerify(local_name) == [pc |-> "loop", local_name |-> local_name]

\* one iteration of the loop of verify_starting_tag
verify_starting_tag ==
    /\ vst.pc = "loop"
    /\ \E r \in Pull(reader) :
          LET m == VerifyMatch(vst.local_name, Front(r)) IN
          /\ reader' = Advance(r)
          /\ vst' = IF m.tag = "Continue" THEN vst ELSE [pc |-> "done", result |-> m]
    /\ UNCHANGED <<str, cpr, seg, wpt, entry>>

(***************************************************************************)
(* string::consume (parser/string.rs).                                     *)
(***************************************************************************)
CallString(tagname, allow_empty) ==
    [pc |-> "verify", tagname |-> tagname, allow_empty |-> allow_empty, string |-> ""]

\* verify_starting_tag(context, tagname)?; let mut string = String::new();
string_consume_verified ==
    /\ str.pc = "verify"
    /\ vst.pc = "done"
    /\ str' = IF IsErr(vst.result)
              THEN [pc |-> "done", result |-> vst.result]
              ELSE [str EXCEPT !.pc = "loop", !.string = ""]
    /\ vst' = Idle
    /\ UNCHANGED <<reader, cpr, seg, wpt, entry>>

\* StringClose accepting an empty string whatever allow_empty is
StringCloseAlwaysOk(string, allow_empty) == Ok(string)

\* StringClose without its allow_empty test
StringCloseIgnoresAllowEmpty(string, allow_empty) ==
    IF ~IsEmpty(string) THEN Ok(string) ELSE Err(NoStringContent)

\* the return at the closing tag once its name is the tag's own
StringClose(string, allow_empty) ==
    IF allow_empty \/ ~IsEmpty(string) THEN Ok(string) ELSE Err(NoStringContent)

\* StringExhausted reporting the missing content instead
StringExhaustedAsEmpty(tagname) == Err(NoStringContent)

\* the return after the loop, when the stream ended inside the element
StringExhausted(tagname) == Err(MissingClosingTag(tagname))

\* StringEventError taking the failure for the end of the element
StringEventErrorEndsElement(s, e) == StringClose(s.string, s.allow_empty)

\* `event?` on an Err(e) of the stream
StringEventError(s, e) == Err(XmlParseError(e))

\* StringStartElement reporting the nested element as a wrong closing tag
StringStartElementAsClosingTag(tagname, name) == Err(InvalidClosingTag(name, tagname))

\* the arm for an opening tag inside the leaf
StringStartElement(tagname, name) == Err(InvalidChildElement(name, tagname))

\* StringCharacters keeping the first text of the element
StringCharactersKeepsFirst(string, content) ==
    IF IsEmpty(string) THEN content ELSE string

\* the arm for text: `string = content`
StringCharacters(string, content) == content

\* StringMatch testing the content before the name of the closing tag
StringMatchContentFirst(s, ev) ==
    CASE ev.kind = "None" -> [pc |-> "done", result |-> StringExhausted(s.tagname)]
      [] ev.kind = "Error" -> [pc |-> "done", result |-> StringEventError(s, ev.error)]
      [] ev.kind = "StartElement" ->
            [pc |-> "done", result |-> StringStartElement(s.tagname, ev.name)]
      [] ev.kind = "Characters" -> [s EXCEPT !.string = StringCharacters(@, ev.text)]
      [] ev.kind = "EndElement" ->
            IF ~s.allow_empty /\ IsEmpty(s.string)
            THEN [pc |-> "done", result |-> Err(NoStringContent)]
            ELSE IF ev.name # s.tagname
            THEN [pc |-> "done", result |-> Err(InvalidClosingTag(ev.name, s.tagname))]
            ELSE [pc |-> "done", result |-> Ok(s.string)]
      [] OTHER -> s

\* the match on one event of `for event in context.reader()`; the frame after it
StringMatch(s, ev) ==
    CASE ev.kind = "None" -> [pc |-> "done", result |-> StringExhausted(s.tagname)]
      [] ev.kind = "Error" -> [pc |-> "done", result |-> StringEventError(s, ev.error)]
      [] ev.kind = "StartElement" ->
            [pc |-> "done", result |-> StringStartElement(s.tagname, ev.name)]
      [] ev.kind = "Characters" -> [s EXCEPT !.string = StringCharacters(@, ev.text)]
      [] ev.kind = "EndElement" ->
            IF ev.name # s.tagname
            THEN [pc |-> "done", result |-> Err(InvalidClosingTag(ev.name, s.tagname))]
            ELSE [pc |-> "done", result |-> StringClose(s.string, s.allow_empty)]
      [] OTHER -> s

\* one iteration of the loop of string::consume
string_consume_loop ==
    /\ str.pc = "loop"
    /\ \E r \in Pull(reader) :
          /\ reader' = Advance(r)
          /\ str' = StringMatch(str, Front(r))
    /\ UNCHANGED <<vst, cpr, seg, wpt, entry>>

(***************************************************************************)
(* copyright::consume (parser/copyright.rs).                               *)
(***************************************************************************)
DefaultCopyright == [author |-> None, year |-> None, license |-> None]

\* attributes.into_iter().find(|attr| attr.name.local_name == n).map(|a| a.value)
RECURSIVE FindAttribute(_, _)
FindAttribute(attributes, n) ==
    IF attributes = <<>> THEN None
    ELSE IF Head(attributes).name = n THEN Some(Head(attributes).value)
    ELSE FindAttribute(Tail(attributes), n)

CallCopyright == [pc |-> "verify", copyright |-> DefaultCopyright]

\* let attributes = verify_starting_tag(context, "copyright")?; copyright.author = ...
copyright_consume_verified ==
    /\ cpr.pc = "verify"
    /\ vst.pc = "done"
    /\ cpr' = IF IsErr(vst.result)
              THEN [pc |-> "done", result |-> vst.result]
              ELSE [cpr EXCEPT !.pc = "loop",
                               !.copyright.author = FindAttribute(vst.result.val, "author")]
    /\ vst' = Idle
    /\ UNCHANGED <<reader, str, seg, wpt, entry>>

\* CopyrightMatch skipping an unknown child instead of rejecting it
CopyrightMatchSkipsUnknown(ev) ==
    CASE ev.kind = "None" -> [do |-> "return", result |-> Err(MissingClosingTag("copyright"))]
      [] ev.kind = "Error" -> [do |-> "return", result |-> Err(EventParsingError("copyright"))]
      [] ev.kind = "StartElement" ->
            IF ev.name = "license" THEN [do |-> "license"]
            ELSE IF ev.name = "year" THEN [do |-> "year"]
            ELSE [do |-> "skip"]
      [] ev.kind = "EndElement" ->
            IF ev.name # "copyright"
            THEN [do |-> "return", result |-> Err(InvalidClosingTag(ev.name, "copyright"))]
            ELSE [do |-> "close"]
      [] OTHER -> [do |-> "skip"]

\* what the loop does with the peeked event: "return" with a result,
\* "license" / "year" to dispatch to the child, "close" to consume the closing
\* tag and return, "skip" to consume the event and go on
CopyrightMatch(ev) ==
    CASE ev.kind = "None" -> [do |-> "return", result |-> Err(MissingClosingTag("copyright"))]
      [] ev.kind = "Error" -> [do |-> "return", result |-> Err(EventParsingError("copyright"))]
      [] ev.kind = "StartElement" ->
            IF ev.name = "license" THEN [do |-> "license"]
            ELSE IF ev.name = "year" THEN [do |-> "year"]
            ELSE [do |-> "return", result |-> Err(InvalidChildElement(ev.name, "copyright"))]
      [] ev.kind = "EndElement" ->
            IF ev.name # "copyright"
            THEN [do |-> "return", result |-> Err(InvalidClosingTag(ev.name, "copyright"))]
            ELSE [do |-> "close"]
      [] OTHER -> [do |-> "skip"]

\* CopyrightReader taking the opening tag of a child before the dispatch
CopyrightReaderPreConsumes(do, r) == IF do = "return" THEN r ELSE Advance(r)

\* CopyrightReader taking the event an error is returned for
CopyrightReaderConsumesOffender(do, r) ==
    IF do \in {"license", "year"} THEN r ELSE Advance(r)

\* CopyrightReader leaving an ignored event in the stream
CopyrightReaderKeepsIgnored(do, r) == IF do = "close" THEN Advance(r) ELSE r

\* CopyrightReader leaving the closing tag in the stream
CopyrightReaderKeepsClosingTag(do, r) == IF do = "skip" THEN Advance(r) ELSE r

\* the reader after the arm taken: the closing-tag arm and the ignored-event
\* arm call context.reader.next(), the other arms leave the peeked event
CopyrightReader(do, r) == IF do \in {"close", "skip"} THEN Advance(r) ELSE r

\* one iteration of the peek loop of copyright::consume
copyright_consume_loop ==
    /\ cpr.pc = "loop"
    /\ \E r \in Pull(reader) :
          LET m == CopyrightMatch(Front(r)) IN
          \/ /\ m.do = "return"
             /\ reader' = CopyrightReader(m.do, r)
             /\ cpr' = [pc |-> "done", result |-> m.result]
             /\ UNCHANGED <<vst, str>>
          \/ /\ m.do \in {"license", "year"}
             /\ reader' = CopyrightReader(m.do, r)
             /\ cpr' = [cpr EXCEPT !.pc = m.do]
             /\ str' = CallString(m.do, FALSE)
             /\ vst' = CallVerify(m.do)
          \/ /\ m.do = "close"
             /\ reader' = CopyrightReader(m.do, r)
             /\ cpr' = [pc |-> "done", result |-> Ok(cpr.copyright)]
             /\ UNCHANGED <<vst, str>>
          \/ /\ m.do = "skip"
             /\ reader' = CopyrightReader(m.do, r)
             /\ UNCHANGED <<vst, str, cpr>>
    /\ UNCHANGED <<seg, wpt, entry>>

\* CopyrightLicense building the copyright anew around the license
CopyrightLicenseResetsOthers(copyright, string) ==
    [DefaultCopyright EXCEPT !.license = Some(string)]

\* copyright.license = Some(..)
CopyrightLicense(copyright, string) == [copyright EXCEPT !.license = Some(string)]

\* CopyrightLicenseReturn going on with the next child after a failed one
CopyrightLicenseReturnSkipsFailure(frame, result) ==
    IF IsErr(result)
    THEN [frame EXCEPT !.pc = "loop"]
    ELSE [frame EXCEPT !.pc = "loop", !.copyright = CopyrightLicense(@, result.val)]

\* the frame of copyright::consume once string::consume has returned result
\* for a license child: `?`, then the assignment
CopyrightLicenseReturn(frame, result) ==
    IF IsErr(result)
    THEN [pc |-> "done", result |-> result]
    ELSE [frame EXCEPT !.pc = "loop", !.copyright = CopyrightLicense(@, result.val)]

\* copyright.license = Some(string::consume(context, "license", false)?)
copyright_consume_license ==
    /\ cpr.pc = "license"
    /\ str.pc = "done"
    /\ cpr' = CopyrightLicenseReturn(cpr, str.result)
    /\ str' = Idle
    /\ UNCHANGED <<reader, vst, seg, wpt, entry>>

\* .parse().ok() of each string string::consume can return, computed once
ParsedTexts == [t \in Texts \cup {""} |-> ParseI32(t)]

\* CopyrightYear keeping the year it has when the text does not parse
CopyrightYearKeepsValid(copyright, string) ==
    IF ParsedTexts[string] = None THEN copyright
    ELSE [copyright EXCEPT !.year = ParsedTexts[string]]

\* copyright.year = (..).parse().ok()
CopyrightYear(copyright, string) == [copyright EXCEPT !.year = ParsedTexts[string]]

\* copyright.year = string::consume(context, "year", false)?.parse().ok()
copyright_consume_year ==
    /\ cpr.pc = "year"
    /\ str.pc = "done"
    /\ cpr' = IF IsErr(str.result)
              THEN [pc |-> "done", result |-> str.result]
              ELSE [cpr EXCEPT !.pc = "loop", !.copyright = CopyrightYear(@, str.result.val)]
    /\ str' = Idle
    /\ UNCHANGED <<reader, vst, seg, wpt, entry>>

(***************************************************************************)
(* waypoint::consume, which tracksegment::consume calls for each <trkpt>:  *)
(* the shared composite algorithm with the required lat / lon attributes,  *)
(* the string child <name> and the child <extensions>, which it hands to   *)
(* the extension hook through Context::consume_waypoint_extensions.        *)
(***************************************************************************)
DefaultWaypoint == [lat |-> None, lon |-> None, name |-> None, extensions |-> None]

CallWaypoint(tagname) == [pc |-> "verify", tagname |-> tagname, waypoint |-> DefaultWaypoint]

\* the waypoint after its opening tag, or the error for a missing coordinate
WaypointAttributes(w, attributes) ==
    LET lat == FindAttribute(attributes, "lat")
        lon == FindAttribute(attributes, "lon")
    IN  IF lat = None THEN [pc |-> "done",
                            result |-> Err(InvalidElementLacksAttribute("latitude", "waypoint"))]
        ELSE IF lon = None THEN [pc |-> "done",
                            result |-> Err(InvalidElementLacksAttribute("longitude", "waypoint"))]
        ELSE [w EXCEPT !.pc = "loop", !.waypoint.lat = lat, !.waypoint.lon = lon]

waypoint_consume_verified ==
    /\ wpt.pc = "verify"
    /\ vst.pc = "done"
    /\ wpt' = IF IsErr(vst.result)
              THEN [pc |-> "done", result |-> vst.result]
              ELSE WaypointAttributes(wpt, vst.result.val)
    /\ vst' = Idle
    /\ UNCHANGED <<reader, str, cpr, seg, entry>>

\* the reader after the arm taken: the closing-tag arm and the ignored-event
\* arm call context.reader.next(), the other arms leave the peeked event
WaypointReader(do, r) == IF do \in {"close", "skip"} THEN Advance(r) ELSE r

WaypointMatch(tagname, ev) ==
    CASE ev.kind = "None" -> [do |-> "return", result |-> Err(MissingClosingTag("waypoint"))]
      [] ev.kind = "Error" -> [do |-> "return", result |-> Err(EventParsingError("waypoint"))]
      [] ev.kind = "StartElement" ->
            IF ev.name = "name" THEN [do |-> "name"]
            ELSE IF ev.name = "extensions" THEN [do |-> "extensions"]
            ELSE [do |-> "return", result |-> Err(InvalidChildElement(ev.name, "waypoint"))]
      [] ev.kind = "EndElement" ->
            IF ev.name # tagname
            THEN [do |-> "return", result |-> Err(InvalidClosingTag(ev.name, "waypoint"))]
            ELSE [do |-> "close"]
      [] OTHER -> [do |-> "skip"]

\* the value the hook EmptyExtensions returns
EmptyExtensionsValue == "()"

\* the frame of waypoint::consume while the hook runs; depth counts the
\* elements the hook has seen open and not yet closed, <extensions> included
CallExtensions(frame) ==
    [pc |-> "extensions", tagname |-> frame.tagname, waypoint |-> frame.waypoint,
     depth |-> 0]

\* the frame of waypoint::consume once the hook has returned result: `?`,
\* then the assignment
ExtensionsReturn(frame, result) ==
    IF IsErr(result)
    THEN [pc |-> "done", result |-> result]
    ELSE [pc |-> "loop", tagname |-> frame.tagname,
          waypoint |-> [frame.waypoint EXCEPT !.extensions = Some(result.val)]]

\* the match of the hook EmptyExtensions on one event of the stream: it takes
\* the element <extensions> with all it holds, up to its closing tag, and
\* keeps nothing of it
EmptyExtensionsMatch(frame, ev) ==
    CASE ev.kind = "None" -> ExtensionsReturn(frame, Err(MissingClosingTag("extensions")))
      [] ev.kind = "Error" -> ExtensionsReturn(frame, Err(XmlParseError(ev.error)))
      [] ev.kind = "StartElement" ->
            IF frame.depth = 0 /\ ev.name # "extensions"
            THEN ExtensionsReturn(frame, Err(InvalidChildElement(ev.name, "extensions")))
            ELSE [frame EXCEPT !.depth = @ + 1]
      [] ev.kind = "EndElement" ->
            IF frame.depth > 1 THEN [frame EXCEPT !.depth = @ - 1]
            ELSE IF ev.name # "extensions"
            THEN ExtensionsReturn(frame, Err(InvalidClosingTag(ev.name, "extensions")))
            ELSE ExtensionsReturn(frame, Ok(EmptyExtensionsValue))
      [] OTHER -> frame

\* Context::consume_waypoint_extensions: E::consume(self), one event of the
\* stream at a time, and the return into waypoint::consume
consume_waypoint_extensions ==
    /\ wpt.pc = "extensions"
    /\ \E r \in Pull(reader) :
          /\ reader' = Advance(r)
          /\ wpt' = EmptyExtensionsMatch(wpt, Front(r))
    /\ UNCHANGED <<vst, str, cpr, seg, entry>>

waypoint_consume_loop ==
    /\ wpt.pc = "loop"
    /\ \E r \in Pull(reader) :
          LET m == WaypointMatch(wpt.tagname, Front(r)) IN
          \/ /\ m.do = "return"
             /\ reader' = WaypointReader(m.do, r)
             /\ wpt' = [pc |-> "done", result |-> m.result]
             /\ UNCHANGED <<vst, str>>
          \/ /\ m.do = "name"
             /\ reader' = WaypointReader(m.do, r)
             /\ wpt' = [wpt EXCEPT !.pc = "name"]
             /\ str' = CallString("name", FALSE)
             /\ vst' = CallVerify("name")
          \/ /\ m.do = "extensions"
             /\ reader' = WaypointReader(m.do, r)
             /\ wpt' = CallExtensions(wpt)
             /\ UNCHANGED <<vst, str>>
          \/ /\ m.do = "close"
             /\ reader' = WaypointReader(m.do, r)
             /\ wpt' = [pc |-> "done", result |-> Ok(wpt.waypoint)]
             /\ UNCHANGED <<vst, str>>
          \/ /\ m.do = "skip"
             /\ reader' = WaypointReader(m.do, r)
             /\ UNCHANGED <<vst, str, wpt>>
    /\ UNCHANGED <<cpr, seg, entry>>

waypoint_consume_name ==
    /\ wpt.pc = "name"
    /\ str.pc = "done"
    /\ wpt' = IF IsErr(str.result)
              THEN [pc |-> "done", result |-> str.result]
              ELSE [wpt EXCEPT !.pc = "loop", !.waypoint.name = Some(str.result.val)]
    /\ str' = Idle
    /\ UNCHANGED <<reader, vst, cpr, seg, entry>>

(***************************************************************************)
(* tracksegment::consume (parser/tracksegment.rs).                         *)
(***************************************************************************)
DefaultTrackSegment == [points |-> <<>>]

CallTracksegment == [pc |-> "verify", segment |-> DefaultTrackSegment]

\* verify_starting_tag(context, "trkseg")?;
tracksegment_consume_verified ==
    /\ seg.pc = "verify"
    /\ vst.pc = "done"
    /\ seg' = IF IsErr(vst.result)
              THEN [pc |-> "done", result |-> vst.result]
              ELSE [seg EXCEPT !.pc = "loop"]
    /\ vst' = Idle
    /\ UNCHANGED <<reader, str, cpr, wpt, entry>>

\* TracksegmentIgnored rejecting text as verify_starting_tag does
TracksegmentIgnoredRejectsText(ev) ==
    IF ev.kind = "Characters"
    THEN [do |-> "return", result |-> Err(InvalidChildElement(ev.text, "tracksegment"))]
    ELSE [do |-> "skip"]

\* the arm `_ => { context.reader.next(); }` for every other event, text
\* included
TracksegmentIgnored(ev) == [do |-> "skip"]

TracksegmentMatch(ev) ==
    CASE ev.kind = "None" -> [do |-> "return", result |-> Err(MissingClosingTag("tracksegment"))]
      [] ev.kind = "Error" -> [do |-> "return", result |-> Err(TrackSegmentError)]
      [] ev.kind = "StartElement" ->
            IF ev.name = "trkpt" THEN [do |-> "trkpt"]
            ELSE [do |-> "return", result |-> Err(InvalidChildElement(ev.name, "tracksegment"))]
      [] ev.kind = "EndElement" ->
            IF ev.name # "trkseg"
            THEN [do |-> "return", result |-> Err(InvalidClosingTag(ev.name, "trksegment"))]
            ELSE [do |-> "close"]
      [] OTHER -> TracksegmentIgnored(ev)

\* TracksegmentReader leaving an ignored event in the stream
TracksegmentReaderKeepsIgnored(do, r) == IF do = "close" THEN Advance(r) ELSE r

\* the reader after the arm taken: the closing-tag arm and the ignored-event
\* arm call context.reader.next(), the other arms leave the peeked event
TracksegmentReader(do, r) == IF do \in {"close", "skip"} THEN Advance(r) ELSE r

\* one iteration of the peek loop of tracksegment::consume
tracksegment_consume_loop ==
    /\ seg.pc = "loop"
    /\ \E r \in Pull(reader) :
          LET m == TracksegmentMatch(Front(r)) IN
          \/ /\ m.do = "return"
             /\ reader' = TracksegmentReader(m.do, r)
             /\ seg' = [pc |-> "done", result |-> m.result]
             /\ UNCHANGED <<vst, wpt>>
          \/ /\ m.do = "trkpt"
             /\ reader' = TracksegmentReader(m.do, r)
             /\ seg' = [seg EXCEPT !.pc = "trkpt"]
             /\ wpt' = CallWaypoint("trkpt")
             /\ vst' = CallVerify("trkpt")
          \/ /\ m.do = "close"
             /\ reader' = TracksegmentReader(m.do, r)
             /\ seg' = [pc |-> "done", result |-> Ok(seg.segment)]
             /\ UNCHANGED <<vst, wpt>>
          \/ /\ m.do = "skip"
             /\ reader' = TracksegmentReader(m.do, r)
             /\ UNCHANGED <<vst, wpt, seg>>
    /\ UNCHANGED <<str, cpr, entry>>

\* Push putting the point in front
PushFront(points, point) == <<point>> \o points

\* points.push(point)
Push(points, point) == Append(points, point)

\* segment.points.push(waypoint::consume(context, "trkpt")?)
tracksegment_consume_trkpt ==
    /\ seg.pc = "trkpt"
    /\ wpt.pc = "done"
    /\ seg' = IF IsErr(wpt.result)
              THEN [pc |-> "done", result |-> wpt.result]
              ELSE [seg EXCEPT !.pc = "loop",
                               !.segment.points = Push(@, wpt.result.val)]
    /\ wpt' = Idle
    /\ UNCHANGED <<reader, vst, str, cpr, entry>>

(***************************************************************************)
(* Input documents: well-formed <copyright> and <trkseg> elements, each    *)
(* followed by one more event of the enclosing document.                   *)
(***************************************************************************)
SeqsUpTo(S, n) == UNION {[1..k -> S] : k \in 0..n}

RECURSIVE Flatten(_)
Flatten(ss) == IF ss = <<>> THEN <<>> ELSE Head(ss) \o Flatten(Tail(ss))

DocTexts == {"2020", "x"}
DocCopyrightAttrs == {<<>>, AuthorAttrs, <<Attr("lang", "en")>> \o AuthorAttrs}
DocNames == {"2020", "x", " "}
Separators == {<<>>, <<Characters(" ")>>, <<OtherEvent>>}

\* <n>text</n>, or <n></n> when text is None
Leaf(n, text) ==
    <<StartElement(n, <<>>)>>
        \o (IF text = None THEN <<>> ELSE <<Characters(text[1])>>)
        \o <<EndElement(n)>>

CopyrightChildren ==
    {[name |-> n, text |-> t] :
        n \in {"license", "year"}, t \in {None} \cup {Some(x) : x \in DocTexts}}

CopyrightDoc(attributes, children, sep) ==
    <<StartElement("copyright", attributes)>>
        \o Flatten([i \in 1..Len(children) |->
                      sep \o Leaf(children[i].name, children[i].text)])
        \o sep \o <<EndElement("copyright"), OtherEvent>>

CopyrightDocs ==
    {CopyrightDoc(a, cs, sep) :
        a \in DocCopyrightAttrs,
        cs \in SeqsUpTo(CopyrightChildren, MaxChildren),
        sep \in Separators}

\* the same elements after a comment, with a comment before each child and
\* before the closing tag
CommentedCopyrightDocs ==
    {<<OtherEvent>> \o CopyrightDoc(a, cs, <<OtherEvent>>) :
        a \in DocCopyrightAttrs,
        cs \in SeqsUpTo(CopyrightChildren, MaxChildren)}

\* <trkpt lat lon><name>text</name></trkpt>, without <name> when name is None
Point(name, sep) ==
    <<StartElement("trkpt", PointAttrs)>>
        \o (IF name = None THEN <<>> ELSE sep \o Leaf("name", name))
        \o sep \o <<EndElement("trkpt")>>

TrksegDoc(names, sep) ==
    <<StartElement("trkseg", <<>>)>>
        \o Flatten([i \in 1..Len(names) |-> sep \o Point(names[i], sep)])
        \o sep \o <<EndElement("trkseg"), OtherEvent>>

\* what the documents put inside <extensions>
ExtensionContents ==
    {<<>>, <<Characters(" ")>>,
     <<StartElement("baz", <<>>), Characters("x"), EndElement("baz")>>}

\* <trkseg> with one <trkpt> that ends with an <extensions> child
ExtendedTrksegDoc(name, content) ==
    <<StartElement("trkseg", <<>>), StartElement("trkpt", PointAttrs)>>
        \o (IF name = None THEN <<>> ELSE Leaf("name", name))
        \o <<StartElement("extensions", <<>>)>> \o content
        \o <<EndElement("extensions"), EndElement("trkpt"), EndElement("trkseg"),
             OtherEvent>>

ExtendedTrksegDocs ==
    {ExtendedTrksegDoc(n, c) : n \in {None, Some("x")}, c \in ExtensionContents}

TrksegDocs ==
    {TrksegDoc(ns, sep) :
        ns \in SeqsUpTo({None} \cup {Some(x) : x \in DocNames}, MaxPoints),
        sep \in Separators}

(***************************************************************************)
(* The calls the parse starts with: each consumer on a fresh context       *)
(* (create_context), as the consume! macro of the tests makes them.        *)
(***************************************************************************)
FreeReader == [events |-> <<>>, pos |-> 0, ended |-> FALSE, free |-> TRUE, rest |-> <<>>]
DocReader(doc) == [events |-> <<>>, pos |-> 0, ended |-> FALSE, free |-> FALSE, rest |-> doc]

Entries ==
    {[fn |-> "verify_starting_tag", tagname |-> "license", allow_empty |-> FALSE],
     [fn |-> "verify_starting_tag", tagname |-> "copyright", allow_empty |-> FALSE],
     [fn |-> "string", tagname |-> "license", allow_empty |-> FALSE],
     [fn |-> "string", tagname |-> "license", allow_empty |-> TRUE],
     [fn |-> "copyright", tagname |-> "copyright", allow_empty |-> FALSE],
     [fn |-> "tracksegment", tagname |-> "trkseg", allow_empty |-> FALSE]}

Readers(e) ==
    {FreeReader}
        \cup (IF e.fn = "copyright"
              THEN {DocReader(d) : d \in CopyrightDocs \cup CommentedCopyrightDocs}
              ELSE {})
        \cup (IF e.fn = "tracksegment"
              THEN {DocReader(d) : d \in TrksegDocs \cup ExtendedTrksegDocs}
              ELSE {})

Init ==
    /\ entry \in Entries
    /\ reader \in Readers(entry)
    /\ vst = CallVerify(entry.tagname)
    /\ str = IF entry.fn = "string" THEN CallString(entry.tagname, entry.allow_empty) ELSE Idle
    /\ cpr = IF entry.fn = "copyright" THEN CallCopyright ELSE Idle
    /\ seg = IF entry.fn = "tracksegment" THEN CallTracksegment ELSE Idle
    /\ wpt = Idle

Next ==
    \/ verify_starting_tag
    \/ string_consume_verified
    \/ string_consume_loop
    \/ copyright_consume_verified
    \/ copyright_consume_loop
    \/ copyright_consume_license
    \/ copyright_consume_year
    \/ waypoint_consume_verified
    \/ waypoint_consume_loop
    \/ waypoint_consume_name
    \/ consume_waypoint_extensions
    \/ tracksegment_consume_verified
    \/ tracksegment_consume_loop
    \/ tracksegment_consume_trkpt

Spec == Init /\ [][Next]_vars

\* the parse as it runs: the one statement that can be executed is executed
Fairness ==
    /\ WF_vars(verify_starting_tag)
    /\ WF_vars(string_consume_verified)
    /\ WF_vars(string_consume_loop)
    /\ WF_vars(copyright_consume_verified)
    /\ WF_vars(copyright_consume_loop)
    /\ WF_vars(copyright_consume_license)
    /\ WF_vars(copyright_consume_year)
    /\ WF_vars(waypoint_consume_verified)
    /\ WF_vars(waypoint_consume_loop)
    /\ WF_vars(waypoint_consume_name)
    /\ WF_vars(consume_waypoint_extensions)
    /\ WF_vars(tracksegment_consume_verified)
    /\ WF_vars(tracksegment_consume_loop)
    /\ WF_vars(tracksegment_consume_trkpt)

LiveSpec == Init /\ [][Next]_vars /\ Fairness

\* the frame of the consumer the parse started with
Top ==
    CASE entry.fn = "verify_starting_tag" -> vst
      [] entry.fn = "string" -> str
      [] entry.fn = "copyright" -> cpr
      [] entry.fn = "tracksegment" -> seg

Done == Top.pc = "done"

(***************************************************************************)
(* Vocabulary of the properties.                                           *)
(***************************************************************************)
IsError(r, e) == r.tag = "Err" /\ r.val = e
IsValue(r, v) == r.tag = "Ok" /\ r.val = v

\* the events next() has handed out
Consumed == SubSeq(reader.events, 1, reader.pos)

IsStructural(ev) == ev.kind \in {"StartElement", "EndElement", "Characters"}
Structural(evs) == SelectSeq(evs, IsStructural)

HasKind(evs, k) == \E i \in 1..Len(evs) : evs[i].kind = k

IsPrefix(s, t) == Len(s) <= Len(t) /\ \A i \in 1..Len(s) : s[i] = t[i]

\* the stream the parse runs on is d, or starts as d does as far as the parse
\* has looked at it
Reads(d) ==
    IF reader.free
    THEN ~reader.ended /\ IsPrefix(reader.events, d)
    ELSE reader.events \o reader.rest = d

\* the beginnings of the documents docs
Prefixes(docs) == UNION {{SubSeq(d, 1, k) : k \in 0..Len(d)} : d \in docs}

\* the stream may be one of the documents with the beginnings prefixes
MayRead(prefixes) == reader.free => reader.events \in prefixes

\* the event the loop iteration of the step just taken has looked at
Seen == IF reader'.pos > reader.pos THEN reader'.events[reader'.pos] ELSE Front(reader')

(***************************************************************************)
(* C1: in the peek loop of copyright::consume and of tracksegment::consume *)
(* an element-open whose name is outside the child vocabulary ({license,   *)
(* year}, {trkpt}) makes the consumer return InvalidChildElement naming    *)
(* that child and the enclosing entity, never Ok.                          *)
(***************************************************************************)
C1_InvalidChild ==
    [][/\ (cpr.pc = "loop" /\ Seen.kind = "StartElement"
                /\ Seen.name \notin {"license", "year"})
            => /\ cpr'.pc = "done"
               /\ IsError(cpr'.result, InvalidChildElement(Seen.name, "copyright"))
       /\ (seg.pc = "loop" /\ Seen.kind = "StartElement" /\ Seen.name # "trkpt")
            => /\ seg'.pc = "done"
               /\ IsError(seg'.result, InvalidChildElement(Seen.name, "tracksegment"))
      ]_vars

C1_Witness ==
    /\ entry.fn = "copyright"
    /\ cpr.pc = "done"
    /\ Front(reader) = StartElement("baz", <<>>)
    /\ IsError(cpr.result, InvalidChildElement("baz", "copyright"))

(***************************************************************************)
(* C2: string::consume on an element without any text event between its   *)
(* opening and its closing tag returns NoStringContent when allow_empty is *)
(* false and Ok("") when it is true.                                       *)
(***************************************************************************)
\* the parse has consumed exactly an element <n> without text
EmptyElementRead(n) ==
    /\ ~HasKind(Consumed, "Error")
    /\ Len(Structural(Consumed)) = 2
    /\ Structural(Consumed)[1].kind = "StartElement"
    /\ Structural(Consumed)[1].name = n
    /\ Structural(Consumed)[2] = EndElement(n)

\* C2: an element read without any text gives NoStringContent, or Ok("") when
\* allow_empty is true
C2_EmptyString ==
    (entry.fn = "string" /\ str.pc = "done" /\ EmptyElementRead(entry.tagname))
        => IF entry.allow_empty
           THEN IsValue(str.result, "")
           ELSE IsError(str.result, NoStringContent)

C2_Witness ==
    /\ entry.fn = "string"
    /\ ~entry.allow_empty
    /\ str.pc = "done"
    /\ EmptyElementRead(entry.tagname)
    /\ IsError(str.result, NoStringContent)

(***************************************************************************)
(* C3: an element-close whose name is not the entity's own makes           *)
(* string::consume (whatever text came before, whatever allow_empty is),   *)
(* copyright::consume and tracksegment::consume return InvalidClosingTag,  *)
(* never Ok.                                                               *)
(***************************************************************************)
C3_InvalidClosingTag ==
    [][/\ (str.pc = "loop" /\ Seen.kind = "EndElement" /\ Seen.name # str.tagname)
            => /\ str'.pc = "done"
               /\ IsError(str'.result, InvalidClosingTag(Seen.name, str.tagname))
       /\ (cpr.pc = "loop" /\ Seen.kind = "EndElement" /\ Seen.name # "copyright")
            => /\ cpr'.pc = "done"
               /\ IsError(cpr'.result, InvalidClosingTag(Seen.name, "copyright"))
       /\ (seg.pc = "loop" /\ Seen.kind = "EndElement" /\ Seen.name # "trkseg")
            => /\ seg'.pc = "done"
               /\ IsError(seg'.result, InvalidClosingTag(Seen.name, "trksegment"))
      ]_vars

C3_Witness ==
    /\ entry.fn = "string"
    /\ entry.allow_empty
    /\ str.pc = "done"
    /\ reader.pos > 0
    /\ HasKind(Consumed, "Characters")
    /\ Consumed[reader.pos] = EndElement("baz")
    /\ IsError(str.result, InvalidClosingTag("baz", "license"))

(***************************************************************************)
(* C4 as claimed: when the stream is exhausted after the entity's opening  *)
(* tag was verified and before its closing tag was seen, string::consume,  *)
(* copyright::consume and tracksegment::consume return MissingClosingTag   *)
(* naming the entity they were called for.                                 *)
(***************************************************************************)
OpeningVerified ==
    /\ Structural(reader.events) # <<>>
    /\ Head(Structural(reader.events)).kind = "StartElement"
    /\ Head(Structural(reader.events)).name = entry.tagname

\* the parse has asked for an event and the stream had none left
Exhausted == reader.ended /\ ~HasKind(reader.events, "Error")

\* the name the consumer of an element gives it in its errors
EntityLabel(n) ==
    CASE n = "trkseg" -> "tracksegment"
      [] n = "trkpt" -> "waypoint"
      [] OTHER -> n

\* C4 (as claimed): exhaustion inside the element gives MissingClosingTag naming
\* the entity the consumer was called for
C4_NamesOwnEntity ==
    (entry.fn \in {"string", "copyright", "tracksegment"}
        /\ Done /\ OpeningVerified /\ Exhausted)
        => IsError(Top.result, MissingClosingTag(EntityLabel(entry.tagname)))

(***************************************************************************)
(* C4 amended: in that case each of the three returns MissingClosingTag,   *)
(* never Ok, and the error names the innermost element still open that a   *)
(* consumer was called for: the entity itself when the stream ends at its  *)
(* own level, the child being read when it ends inside a dispatched child  *)
(* (<extensions> for the whole content of a waypoint's extensions, which   *)
(* the hook takes without a consumer for the elements inside).             *)
(***************************************************************************)
\* the names of the elements open after evs, outermost first
RECURSIVE OpenElements(_, _)
OpenElements(evs, open) ==
    IF evs = <<>> THEN open
    ELSE IF Head(evs).kind = "StartElement"
         THEN OpenElements(Tail(evs), Append(open, Head(evs).name))
    ELSE IF Head(evs).kind = "EndElement" /\ open # <<>>
         THEN OpenElements(Tail(evs), SubSeq(open, 1, Len(open) - 1))
    ELSE OpenElements(Tail(evs), open)

\* the innermost element of open that a consumer was called for: nothing
\* inside <extensions> has one
InnermostConsumer(open) ==
    IF \E i \in 1..Len(open) : open[i] = "extensions" THEN "extensions" ELSE Last(open)

\* C4 (amended): exhaustion inside the element gives MissingClosingTag naming the
\* innermost element still open that a consumer was called for
C4_NamesInnermostOpen ==
    (entry.fn \in {"string", "copyright", "tracksegment"}
        /\ Done /\ OpeningVerified /\ Exhausted)
        => /\ OpenElements(reader.events, <<>>) # <<>>
           /\ IsError(Top.result,
                      MissingClosingTag(EntityLabel(
                          InnermostConsumer(OpenElements(reader.events, <<>>)))))

C4_Witness ==
    /\ entry.fn = "copyright"
    /\ Done /\ OpeningVerified /\ Exhausted
    /\ OpenElements(reader.events, <<>>) = <<"copyright", "year">>
    /\ IsError(cpr.result, MissingClosingTag("year"))

(***************************************************************************)
(* C5: tracksegment::consume on a well-formed <trkseg> with N >= 0 <trkpt> *)
(* children returns Ok with exactly N points, the i-th being the waypoint  *)
(* of the i-th <trkpt> (its name the i-th name text), in input order.      *)
(***************************************************************************)
NameOptions == {None} \cup {Some(x) : x \in DocNames}

ExpectedPoints(ns) ==
    [i \in 1..Len(ns) |-> [lat |-> Some("38.8"), lon |-> Some("-77.0"), name |-> ns[i],
                           extensions |-> None]]

\* each well-formed <trkseg> with the segment it stands for
TrksegCases ==
    {[doc |-> TrksegDoc(ns, sep), segment |-> [points |-> ExpectedPoints(ns)]] :
        ns \in SeqsUpTo(NameOptions, MaxPoints), sep \in Separators}

TrksegPrefixes == Prefixes({c.doc : c \in TrksegCases})

\* C5: a well-formed <trkseg> with N <trkpt> gives Ok with their N waypoints in
\* input order
C5_PointsInOrder ==
    (entry.fn = "tracksegment" /\ seg.pc = "done" /\ MayRead(TrksegPrefixes))
        => \A c \in TrksegCases : Reads(c.doc) => IsValue(seg.result, c.segment)

C5_Witness ==
    /\ entry.fn = "tracksegment"
    /\ seg.pc = "done"
    /\ Reads(TrksegDoc(<<Some("x"), Some("2020")>>, <<Characters(" ")>>))
    /\ seg.result.tag = "Ok"
    /\ Len(seg.result.val.points) = 2
    /\ seg.result.val.points[1].name = Some("x")
    /\ seg.result.val.points[2].name = Some("2020")

(***************************************************************************)
(* C6: copyright::consume on a well-formed <copyright> returns the author  *)
(* attribute when present (absent otherwise), the text of the <license>    *)
(* child when present (absent otherwise) and the integer value of the      *)
(* <year> child when present (absent without a <year> child).              *)
(***************************************************************************)
LicenseChildren == {<<>>} \cup {<<[name |-> "license", text |-> Some(t)]>> : t \in Texts}
YearChildren == {<<>>} \cup {<<[name |-> "year", text |-> Some(t)]>> : t \in {"2020", "-5"}}

Arrange(lc, yc, licenseFirst) == IF licenseFirst THEN lc \o yc ELSE yc \o lc

ExpectedAuthor(attributes) == IF attributes = <<>> THEN None ELSE Some("OSM")
ExpectedLicense(lc) == IF lc = <<>> THEN None ELSE lc[1].text
ExpectedYear(yc) ==
    IF yc = <<>> THEN None
    ELSE IF yc[1].text = Some("2020") THEN Some(2020)
    ELSE Some(0 - 5)

\* each well-formed <copyright> with at most one license and at most one
\* year child, with the copyright it stands for
CopyrightCases ==
    {[doc |-> CopyrightDoc(a, Arrange(lc, yc, licenseFirst), sep),
      copyright |-> [author |-> ExpectedAuthor(a),
                     license |-> ExpectedLicense(lc),
                     year |-> ExpectedYear(yc)]] :
        a \in DocCopyrightAttrs, lc \in LicenseChildren, yc \in YearChildren,
        licenseFirst \in BOOLEAN, sep \in Separators}

CopyrightPrefixes == Prefixes({c.doc : c \in CopyrightCases})

\* C6: a well-formed <copyright> gives Ok with its author attribute, license text
\* and year value, each absent when not in the input
C6_CopyrightFields ==
    (entry.fn = "copyright" /\ cpr.pc = "done" /\ MayRead(CopyrightPrefixes))
        => \A c \in CopyrightCases : Reads(c.doc) => IsValue(cpr.result, c.copyright)

C6_Witness ==
    /\ entry.fn = "copyright"
    /\ cpr.pc = "done"
    /\ Reads(CopyrightDoc(<<Attr("lang", "en")>> \o AuthorAttrs,
                          <<[name |-> "year", text |-> Some("2020")],
                            [name |-> "license", text |-> Some("x")]>>, <<>>))
    /\ IsValue(cpr.result, [author |-> Some("OSM"), license |-> Some("x"), year |-> Some(2020)])

(***************************************************************************)
(* C7 as claimed: a <year> child whose content does not parse as an        *)
(* integer (non-numeric text, and also empty or missing text) never makes  *)
(* copyright::consume fail: on an otherwise well-formed element it returns *)
(* Ok with year absent.                                                    *)
(***************************************************************************)
NoYearText == None
UnparsableYearTexts == {Some("x"), Some(" "), Some("2147483648")}

YearChild(t) == <<[name |-> "year", text |-> t]>>

\* each otherwise well-formed <copyright> with a year child of text t in
\* years, with the license it holds
YearCases(years) ==
    {[doc |-> CopyrightDoc(a, Arrange(lc, YearChild(t), licenseFirst), sep),
      license |-> ExpectedLicense(lc)] :
        a \in DocCopyrightAttrs, lc \in LicenseChildren, t \in years,
        licenseFirst \in BOOLEAN, sep \in Separators}

UnparsableYearCases == YearCases(UnparsableYearTexts)
EmptyYearCases == YearCases({NoYearText})

YearPrefixes == Prefixes({c.doc : c \in UnparsableYearCases \cup EmptyYearCases})

\* C7 (as claimed): any <year> that does not parse, empty ones included, gives Ok
\* with year absent
C7_UnparsableYearIsAbsent ==
    (entry.fn = "copyright" /\ cpr.pc = "done" /\ MayRead(YearPrefixes))
        => \A c \in UnparsableYearCases \cup EmptyYearCases :
              Reads(c.doc) => (cpr.result.tag = "Ok" /\ cpr.result.val.year = None)

(***************************************************************************)
(* C7 amended: a <year> child with non-empty text that does not parse as   *)
(* an i32 never makes copyright::consume fail, which returns Ok with year  *)
(* absent on an otherwise well-formed element; a <year> child with empty   *)
(* or missing text makes it fail with NoStringContent.                     *)
(***************************************************************************)
\* C7 (amended): a <year> with non-empty text that does not parse gives Ok with
\* year absent; an empty <year> gives NoStringContent
C7_NonEmptyUnparsableYearIsAbsent ==
    (entry.fn = "copyright" /\ cpr.pc = "done" /\ MayRead(YearPrefixes))
        => /\ \A c \in UnparsableYearCases :
                 Reads(c.doc) => /\ cpr.result.tag = "Ok"
                                 /\ cpr.result.val.year = None
                                 /\ cpr.result.val.license = c.license
           /\ \A c \in EmptyYearCases :
                 Reads(c.doc) => IsError(cpr.result, NoStringContent)

C7_Witness ==
    /\ entry.fn = "copyright"
    /\ cpr.pc = "done"
    /\ Reads(CopyrightDoc(AuthorAttrs, YearChild(Some("x")), <<>>))
    /\ IsValue(cpr.result, [author |-> Some("OSM"), license |-> None, year |-> None])

(***************************************************************************)
(* C8: once the stream has reported a tokenization error to the parse,     *)
(* whichever consumer was reading, the parse returns an error, never Ok.   *)
(***************************************************************************)
C8_ErrorFailsParse ==
    (Done /\ HasKind(reader.events, "Error")) => Top.result.tag = "Err"

C8_Witness ==
    /\ entry.fn = "copyright"
    /\ Done
    /\ HasKind(Consumed, "Error")
    /\ HasKind(Consumed, "Characters")
    /\ cpr.result.tag = "Err"
    /\ cpr.result.val.kind = "XmlParseError"

(***************************************************************************)
(* C9: a tokenization error of the stream is returned to the caller as a   *)
(* stream failure that carries the underlying error and names the entity   *)
(* being parsed; it is never swallowed or turned into another error kind.  *)
(***************************************************************************)
StreamFailureKinds == {"XmlParseError", "EventParsingError", "TrackSegmentError"}

Elements(s) == {s[i] : i \in 1..Len(s)}

EntityLabels == {EntityLabel(n) : n \in Names}

\* C9: after a tokenization error the parse returns a stream failure that carries
\* the error and names an entity
C9_ErrorSurfaced ==
    \A i \in 1..Len(reader.events) :
        (Done /\ reader.events[i].kind = "Error")
            => /\ Top.result.tag = "Err"
               /\ Top.result.val.kind \in StreamFailureKinds
               /\ reader.events[i].error \in Elements(Top.result.val.args)
               /\ Elements(Top.result.val.args) \cap EntityLabels # {}

(***************************************************************************)
(* C10: copyright::consume and tracksegment::consume return Ok only at the *)
(* element-close of their own name that closes their own element, and then *)
(* the events consumed end with that closing tag: nothing after it has     *)
(* been taken from the stream.                                             *)
(***************************************************************************)
\* elements open after the first i events of evs
Depth(evs, i) ==
    Cardinality({j \in 1..i : evs[j].kind = "StartElement"})
        - Cardinality({j \in 1..i : evs[j].kind = "EndElement"})

\* evs is the element <n> ... </n>, after events the parser ignores
IsElement(evs, n) ==
    LET s == Structural(evs) IN
    /\ Len(s) >= 2
    /\ s[1].kind = "StartElement" /\ s[1].name = n
    /\ Last(evs) = EndElement(n)
    /\ \A i \in 1..(Len(s) - 1) : Depth(s, i) >= 1
    /\ Depth(s, Len(s)) = 0

\* C10: Ok is returned only with the entity's own element consumed up to its
\* closing tag and nothing of the stream taken after it
C10_OkAtOwnClosingTag ==
    (entry.fn \in {"copyright", "tracksegment"} /\ Done /\ Top.result.tag = "Ok")
        => /\ IsElement(Consumed, entry.tagname)
           /\ reader.pos = Len(reader.events)
           /\ ~reader.ended
           /\ ~reader.free => reader.rest = <<OtherEvent>>

C10_Witness ==
    /\ entry.fn = "copyright"
    /\ ~reader.free
    /\ Done
    /\ cpr.result.tag = "Ok"
    /\ cpr.result.val.license # None
    /\ reader.rest = <<OtherEvent>>
    /\ Last(Consumed) = EndElement("copyright")

(***************************************************************************)
(* C11: the position of the stream at an error return.                     *)
(***************************************************************************)
ErrorReturn ==
    /\ entry.fn \in {"string", "copyright", "tracksegment"}
    /\ Done
    /\ Top.result.tag = "Err"

\* C11: every error return of string::consume, copyright::consume and
\* tracksegment::consume leaves the stream right after the entity's own
\* closing tag
C11_ErrorAfterOwnClosingTag ==
    ErrorReturn
        => /\ IsElement(Consumed, entry.tagname)
           /\ reader.pos = Len(reader.events)

\* tracksegment::consume has returned InvalidClosingTag on <trkseg></baz>
\* with only the opening tag consumed and </baz> still at the front
C11_Witness ==
    /\ entry.fn = "tracksegment"
    /\ Done
    /\ IsError(seg.result, InvalidClosingTag("baz", "trksegment"))
    /\ Consumed = <<StartElement("trkseg", <<>>)>>
    /\ Front(reader) = EndElement("baz")

(***************************************************************************)
(* C12, C13, C14: verify_starting_tag called on its own.                   *)
(***************************************************************************)
VerifyCall == entry.fn = "verify_starting_tag"

\* the first event taken from the stream that is an element-open, an
\* element-close or a text; NoEvent when there has been none
FirstStructural ==
    IF Structural(Consumed) = <<>> THEN NoEvent ELSE Head(Structural(Consumed))

\* C12: when the first element-open, element-close or text event is an
\* element-open named as expected, verify_starting_tag returns Ok with exactly
\* the attributes of that element, having taken the events up to that opening
\* tag, the opening tag included, and no event after it
C12_OpeningTagAccepted ==
    (VerifyCall /\ FirstStructural.kind = "StartElement"
                /\ FirstStructural.name = entry.tagname)
        => /\ vst.pc = "done"
           /\ IsValue(vst.result, FirstStructural.attributes)
           /\ Last(Consumed) = FirstStructural
           /\ Len(Structural(Consumed)) = 1
           /\ reader.pos = Len(reader.events)

C12_Witness ==
    /\ VerifyCall
    /\ Consumed = <<OtherEvent, OtherEvent, StartElement("copyright", AuthorAttrs)>>
    /\ vst.pc = "done"
    /\ IsValue(vst.result, AuthorAttrs)

\* what InvalidChildElement carries for the event ev: an element's name, or
\* the text
Found(ev) == IF ev.kind = "Characters" THEN ev.text ELSE ev.name

\* C13: when the first element-open, element-close or text event is anything
\* but an element-open named as expected (another element-open, any
\* element-close, any text, whitespace included), verify_starting_tag returns
\* InvalidChildElement carrying what was found and the expected name
C13_OtherEventRejected ==
    (VerifyCall /\ FirstStructural.kind # "None"
                /\ ~(FirstStructural.kind = "StartElement"
                        /\ FirstStructural.name = entry.tagname))
        => /\ vst.pc = "done"
           /\ IsError(vst.result,
                       InvalidChildElement(Found(FirstStructural), entry.tagname))
           /\ Last(Consumed) = FirstStructural

C13_Witness ==
    /\ VerifyCall
    /\ Consumed = <<OtherEvent, Characters(" ")>>
    /\ vst.pc = "done"
    /\ IsError(vst.result, InvalidChildElement(" ", entry.tagname))

\* C14: when the stream is exhausted after zero or more events none of which
\* is an element-open, an element-close or a text, verify_starting_tag returns
\* MissingOpeningTag carrying the expected name
C14_ExhaustedIsMissingOpeningTag ==
    (VerifyCall /\ Exhausted /\ FirstStructural.kind = "None")
        => /\ vst.pc = "done"
           /\ IsError(vst.result, MissingOpeningTag(entry.tagname))

C14_Witness ==
    /\ VerifyCall
    /\ Exhausted
    /\ Consumed = <<OtherEvent, OtherEvent>>
    /\ vst.pc = "done"
    /\ IsError(vst.result, MissingOpeningTag(entry.tagname))

(***************************************************************************)
(* C15: string::consume returns InvalidChildElement, naming the nested     *)
(* element and the leaf's tag name, as soon as an element-open comes after  *)
(* the leaf's opening tag and before its closing tag, whatever text came    *)
(* before and whatever allow_empty is; it does not return Ok.               *)
(***************************************************************************)
C15_NestedElementRejected ==
    [][(str.pc = "loop" /\ Seen.kind = "StartElement")
            => /\ str'.pc = "done"
               /\ IsError(str'.result, InvalidChildElement(Seen.name, str.tagname))
      ]_vars

C15_Witness ==
    /\ entry.fn = "string"
    /\ entry.allow_empty
    /\ Consumed = <<StartElement("license", <<>>), Characters("x"),
                    StartElement("baz", <<>>)>>
    /\ str.pc = "done"
    /\ IsError(str.result, InvalidChildElement("baz", "license"))

(***************************************************************************)
(* C16: when string::consume succeeds on an element holding one or more    *)
(* text events, ignored events possibly between them, the string returned  *)
(* is the content of the last text event before the closing tag alone;     *)
(* the texts are not concatenated.                                         *)
(***************************************************************************)
\* the text of the last text event of evs
RECURSIVE LastText(_)
LastText(evs) ==
    IF Last(evs).kind = "Characters" THEN Last(evs).text
    ELSE LastText(SubSeq(evs, 1, Len(evs) - 1))

C16_LastTextWins ==
    (entry.fn = "string" /\ Done /\ str.result.tag = "Ok"
                         /\ HasKind(Consumed, "Characters"))
        => str.result.val = LastText(Consumed)

C16_Witness ==
    /\ entry.fn = "string"
    /\ Consumed = <<StartElement("license", <<>>), Characters("x"), OtherEvent,
                    Characters("2020"), EndElement("license")>>
    /\ Done
    /\ IsValue(str.result, "2020")

(***************************************************************************)
(* C17: in copyright::consume a repeated license or year child is not an   *)
(* error and the last occurrence decides the field; a later year that does *)
(* not parse leaves year absent even after an earlier one that did.        *)
(***************************************************************************)
FilledChildren == {c \in CopyrightChildren : c.text # None}

\* the text of the last child named n of children, None without such a child
RECURSIVE LastChildText(_, _)
LastChildText(children, n) ==
    IF children = <<>> THEN None
    ELSE IF Last(children).name = n THEN Last(children).text
    ELSE LastChildText(SubSeq(children, 1, Len(children) - 1), n)

\* the year a child text of the documents stands for
YearValue(text) == IF text = Some("2020") THEN Some(2020) ELSE None

Repeats(children) ==
    \E i, j \in 1..Len(children) : i < j /\ children[i].name = children[j].name

\* each well-formed <copyright> with a repeated child, every child with text,
\* and the copyright its last children stand for
RepeatedCases ==
    {[doc |-> CopyrightDoc(a, cs, sep),
      copyright |-> [author |-> ExpectedAuthor(a),
                     license |-> LastChildText(cs, "license"),
                     year |-> YearValue(LastChildText(cs, "year"))]] :
        a \in DocCopyrightAttrs,
        cs \in {x \in SeqsUpTo(FilledChildren, MaxChildren) : Repeats(x)},
        sep \in Separators}

RepeatedPrefixes == Prefixes({c.doc : c \in RepeatedCases})

C17_LastOccurrenceWins ==
    (entry.fn = "copyright" /\ cpr.pc = "done" /\ MayRead(RepeatedPrefixes))
        => \A c \in RepeatedCases : Reads(c.doc) => IsValue(cpr.result, c.copyright)

C17_Witness ==
    /\ entry.fn = "copyright"
    /\ cpr.pc = "done"
    /\ Reads(CopyrightDoc(<<>>, <<[name |-> "year", text |-> Some("2020")],
                                  [name |-> "year", text |-> Some("x")]>>,
                          <<OtherEvent>>))
    /\ IsValue(cpr.result, DefaultCopyright)

(***************************************************************************)
(* C18: the outcome of copyright::consume on a well-formed element with    *)
(* one license and one year child does not depend on which of the two      *)
(* comes first: the same Ok value, or an error, in both orders.            *)
(***************************************************************************)
ChildTexts == {None} \cup {Some(t) : t \in DocTexts}

\* what a <copyright> with the license text lt and the year text yt gives,
\* a function of the two children and not of their order
PairOutcome(a, lt, yt) ==
    IF lt = None \/ yt = None THEN Err(NoStringContent)
    ELSE Ok([author |-> ExpectedAuthor(a), license |-> lt, year |-> YearValue(yt)])

PairCases ==
    {[doc |-> CopyrightDoc(a, Arrange(<<[name |-> "license", text |-> lt]>>,
                                      YearChild(yt), licenseFirst), sep),
      outcome |-> PairOutcome(a, lt, yt)] :
        a \in DocCopyrightAttrs, lt \in ChildTexts, yt \in ChildTexts,
        licenseFirst \in BOOLEAN, sep \in Separators}

PairPrefixes == Prefixes({c.doc : c \in PairCases})

C18_ChildOrderIrrelevant ==
    (entry.fn = "copyright" /\ cpr.pc = "done" /\ MayRead(PairPrefixes))
        => \A c \in PairCases :
              Reads(c.doc) => /\ cpr.result.tag = c.outcome.tag
                              /\ cpr.result.val = c.outcome.val

C18_Witness ==
    /\ entry.fn = "copyright"
    /\ cpr.pc = "done"
    /\ Reads(CopyrightDoc(AuthorAttrs, <<[name |-> "year", text |-> Some("2020")],
                                         [name |-> "license", text |-> Some("2020")]>>,
                          <<OtherEvent>>))
    /\ IsValue(cpr.result,
               [author |-> Some("OSM"), license |-> Some("2020"), year |-> Some(2020)])

(***************************************************************************)
(* C19: an event that is not an element-open, an element-close or a text   *)
(* (a comment, a processing instruction) is consumed and discarded         *)
(* wherever a consumer meets it: before the opening tag, between children, *)
(* before the closing tag of a copyright, a trkseg or a string leaf. The    *)
(* step that meets it takes it from the stream and changes nothing else,   *)
(* so the parse goes on as it would without the event: same value, same    *)
(* success or error, same position at return.                              *)
(***************************************************************************)
C19_IgnoredEventDiscarded ==
    [][(reader' # reader /\ Seen.kind = "Other")
            => /\ reader'.pos = reader.pos + 1
               /\ reader'.events[reader'.pos] = OtherEvent
               /\ UNCHANGED <<vst, str, cpr, seg, wpt>>
      ]_vars

\* ignored events before the opening tag, between two children and before the
\* closing tag of a copyright read to its end
C19_Witness ==
    /\ entry.fn = "copyright"
    /\ Done
    /\ Reads(<<OtherEvent>> \o
             CopyrightDoc(AuthorAttrs, <<[name |-> "license", text |-> Some("x")],
                                         [name |-> "year", text |-> Some("2020")]>>,
                          <<OtherEvent>>))
    /\ IsValue(cpr.result,
               [author |-> Some("OSM"), license |-> Some("x"), year |-> Some(2020)])

(***************************************************************************)
(* C20: an error is fatal to the enclosing entity. When the child consumer *)
(* called by copyright::consume (string::consume for license and year) or  *)
(* by tracksegment::consume (waypoint::consume for trkpt) returns an       *)
(* error, the composite returns that same error at once: it takes no       *)
(* further event from the stream, does not go on with the next child and   *)
(* does not return Ok.                                                     *)
(***************************************************************************)
C20_ChildErrorIsFatal ==
    [][/\ (cpr.pc \in {"license", "year"} /\ str.pc = "done" /\ str.result.tag = "Err")
            => /\ cpr'.pc = "done"
               /\ cpr'.result = str.result
               /\ reader' = reader
       /\ (seg.pc = "trkpt" /\ wpt.pc = "done" /\ wpt.result.tag = "Err")
            => /\ seg'.pc = "done"
               /\ seg'.result = wpt.result
               /\ reader' = reader
      ]_vars

C20_Witness ==
    /\ entry.fn = "copyright"
    /\ Done
    /\ Consumed = <<StartElement("copyright", <<>>), StartElement("license", <<>>),
                    StartElement("baz", <<>>)>>
    /\ reader.pos = Len(reader.events)
    /\ IsError(cpr.result, InvalidChildElement("baz", "license"))

(***************************************************************************)
(* C21: peek-then-dispatch does not pre-consume. When copyright::consume   *)
(* or tracksegment::consume dispatches on a peeked element-open of a known *)
(* child, the verify_starting_tag of the child takes that very event as    *)
(* its first event and succeeds: it skips no event and does not fail with  *)
(* InvalidChildElement or MissingOpeningTag.                               *)
(***************************************************************************)
\* verify_starting_tag is running for a child a composite has dispatched to
Dispatched ==
    /\ vst.pc = "loop"
    /\ \/ cpr.pc \in {"license", "year"} /\ str.pc = "verify"
       \/ seg.pc = "trkpt" /\ wpt.pc = "verify"

C21_DispatchDoesNotPreConsume ==
    [][Dispatched
            => /\ Front(reader).kind = "StartElement"
               /\ Front(reader).name = vst.local_name
               /\ reader'.events = reader.events
               /\ reader'.pos = reader.pos + 1
               /\ vst'.pc = "done"
               /\ IsValue(vst'.result, Front(reader).attributes)
      ]_vars

C21_Witness ==
    /\ seg.pc = "trkpt"
    /\ wpt.pc = "verify"
    /\ vst.pc = "done"
    /\ IsValue(vst.result, PointAttrs)
    /\ Consumed = <<StartElement("trkseg", <<>>), OtherEvent,
                    StartElement("trkpt", PointAttrs)>>
    /\ reader.pos = Len(reader.events)

(***************************************************************************)
(* C22: a text event that is direct content of a copyright or a trkseg,    *)
(* whitespace-only or not, is consumed and discarded by the peek loop: the  *)
(* step that meets it takes it from the stream, raises no error and leaves  *)
(* the value under construction as it was.                                 *)
(***************************************************************************)
C22_TextInCompositeDiscarded ==
    [][((cpr.pc = "loop" \/ seg.pc = "loop") /\ Seen.kind = "Characters")
            => /\ reader'.pos = reader.pos + 1
               /\ reader'.events[reader'.pos].kind = "Characters"
               /\ UNCHANGED <<vst, str, cpr, seg, wpt>>
      ]_vars

C22_Witness ==
    /\ entry.fn = "tracksegment"
    /\ Done
    /\ Consumed = <<StartElement("trkseg", <<>>), Characters("x"), Characters(" "),
                    EndElement("trkseg")>>
    /\ IsValue(seg.result, DefaultTrackSegment)

(***************************************************************************)
(* C23: every consumer terminates on every finite event stream. Each       *)
(* iteration of the loops of verify_starting_tag, string::consume,         *)
(* copyright::consume and tracksegment::consume returns, or consumes an    *)
(* event, or dispatches to a child whose opening tag is the next event of  *)
(* the stream and is consumed by the child; so the consumer the parse      *)
(* started with returns.                                                   *)
(***************************************************************************)
\* the step is an iteration of the loop of frame that returns, consumes an
\* event or dispatches to one of the children
Progresses(frame, frameAfter, children) ==
    frame.pc = "loop"
        => \/ frameAfter.pc = "done"
           \/ reader'.pos = reader.pos + 1
           \/ /\ frameAfter.pc \in children
              /\ vst'.pc = "loop"
              /\ Front(reader').kind = "StartElement"

EachIterationProgresses ==
    /\ Progresses(vst, vst', {})
    /\ Progresses(str, str', {})
    /\ Progresses(cpr, cpr', {"license", "year"})
    /\ Progresses(seg, seg', {"trkpt"})

C23_Terminates == [][EachIterationProgresses]_vars /\ <>Done

\* a parse that has returned after reading a whole document with two children
C23_Witness ==
    /\ entry.fn = "copyright"
    /\ ~reader.free
    /\ Done
    /\ Len(Consumed) >= 10

(***************************************************************************)
(* C24: string::consume tests the text it has kept as it is, without       *)
(* trimming. With allow_empty false an element whose content is a          *)
(* whitespace-only text returns Ok with that whitespace, and               *)
(* NoStringContent is returned only when the string kept has length zero.  *)
(***************************************************************************)
C24_EmptinessIsNotTrimmed ==
    [][(str.pc = "loop" /\ str'.pc = "done")
            => /\ (Seen = EndElement(str.tagname) /\ str.string = " ")
                    => IsValue(str'.result, " ")
               /\ IsError(str'.result, NoStringContent)
                    => /\ str.string = ""
                       /\ ~str.allow_empty
                       /\ Seen = EndElement(str.tagname)
      ]_vars

C24_Witness ==
    /\ entry.fn = "string"
    /\ ~entry.allow_empty
    /\ Done
    /\ Consumed = <<StartElement("license", <<>>), Characters(" "),
                    EndElement("license")>>
    /\ IsValue(str.result, " ")

(***************************************************************************)
(* C25: where the offending event is at an error return. When              *)
(* copyright::consume or tracksegment::consume fails with                  *)
(* InvalidChildElement or InvalidClosingTag raised by its own peek loop,   *)
(* the offending event has only been peeked and is still the next event of *)
(* the stream; when verify_starting_tag fails with InvalidChildElement,    *)
(* the offending event has been consumed.                                  *)
(***************************************************************************)
\* the iteration of the loop of frame returns InvalidChildElement or
\* InvalidClosingTag
RaisesInvalid(frame, frameAfter) ==
    /\ frame.pc = "loop"
    /\ frameAfter.pc = "done"
    /\ frameAfter.result.tag = "Err"
    /\ frameAfter.result.val.kind \in {"InvalidChildElement", "InvalidClosingTag"}

\* the offending event is the next event of the stream
OffenderPeeked(result) ==
    /\ reader'.pos = reader.pos
    /\ Front(reader').kind \in {"StartElement", "EndElement"}
    /\ Front(reader').name = result.val.args[1]

\* the offending event is the last event taken from the stream
OffenderConsumed(result) ==
    /\ reader'.pos = reader.pos + 1
    /\ reader'.pos = Len(reader'.events)
    /\ IsStructural(reader'.events[reader'.pos])
    /\ Found(reader'.events[reader'.pos]) = result.val.args[1]

C25_OffendingEventPosition ==
    [][/\ RaisesInvalid(cpr, cpr') => OffenderPeeked(cpr'.result)
       /\ RaisesInvalid(seg, seg') => OffenderPeeked(seg'.result)
       /\ RaisesInvalid(vst, vst') => OffenderConsumed(vst'.result)
      ]_vars

C25_Witness ==
    /\ entry.fn = "copyright"
    /\ Done
    /\ IsError(cpr.result, InvalidClosingTag("license", "copyright"))
    /\ Consumed = <<StartElement("copyright", AuthorAttrs), Characters("x")>>
    /\ Front(reader) = EndElement("license")

====
